---- MODULE Spec2Model ----
(***************************************************************************)
(* A model of src/src/de.rs: the Token type, the Deserializer trait with   *)
(* its expect_* operations, the Deserializable adapters, and the two       *)
(* shape-agnostic engines IgnoreTokens and GatherTokens.                   *)
(*                                                                         *)
(* A deserializer is the record d = [tokens, pos, nexts, errs]: the token  *)
(* vector it iterates over (tests::TokenDeserializer), the number of items *)
(* it has yielded, the number of times next() was called, and the log of   *)
(* the error-constructor calls (kind, the token handed over, and the value *)
(* of nexts at the call).  Every operation returns [d, err, val]: the      *)
(* deserializer afterwards, "Ok" or the error kind, and the value.         *)
(*                                                                         *)
(* Floating point payloads are modelled by integral values only.           *)
(***************************************************************************)
EXTENDS Integers, Sequences, FiniteSets, TLC

VARIABLES tokens, call, target, ret

vars == <<tokens, call, target, ret>>

-----------------------------------------------------------------------------
(* enum Token *)

Tok(k, n, s, v) == [kind |-> k, n |-> n, s |-> s, v |-> v]

Null == Tok("Null", 0, "", "")
Bool(b) == Tok("Bool", IF b THEN 1 ELSE 0, "", "")
IntTok(x) == Tok("Int", x, "", "")
I8(x) == Tok("I8", x, "", "")
I16(x) == Tok("I16", x, "", "")
I32(x) == Tok("I32", x, "", "")
I64(x) == Tok("I64", x, "", "")
Uint(x) == Tok("Uint", x, "", "")
U8(x) == Tok("U8", x, "", "")
U16(x) == Tok("U16", x, "", "")
U32(x) == Tok("U32", x, "", "")
U64(x) == Tok("U64", x, "", "")
F32(x) == Tok("F32", x, "", "")
F64(x) == Tok("F64", x, "", "")
Char(c) == Tok("Char", 0, c, "")
Str(s) == Tok("Str", 0, s, "")
String(s) == Tok("String", 0, s, "")
Option(b) == Tok("Option", IF b THEN 1 ELSE 0, "", "")
TupleStart(len) == Tok("TupleStart", len, "", "")
StructStart(name, len) == Tok("StructStart", len, name, "")
EnumStart(name, variant, len) == Tok("EnumStart", len, name, variant)
SeqStart(len) == Tok("SeqStart", len, "", "")
MapStart(len) == Tok("MapStart", len, "", "")
End == Tok("End", 0, "", "")

\* The token slot of an error that carries no token (end_of_stream_error).
NoToken == Tok("-", 0, "", "")

NumKinds ==
    {"Int", "I8", "I16", "I32", "I64", "Uint", "U8", "U16", "U32", "U64", "F32", "F64"}

-----------------------------------------------------------------------------
(* tests::TokenDeserializer and the three error constructors *)

TokenDeserializer_new(toks) == [tokens |-> toks, pos |-> 0, nexts |-> 0, errs |-> <<>>]

Res(d, err, val) == [d |-> d, err |-> err, val |-> val]

Ok(d, val) == Res(d, "Ok", val)

IsOk(r) == r.err = "Ok"

LogErr(d, kind, token) ==
    [d EXCEPT !.errs = Append(@, [kind |-> kind, tok |-> token, at |-> d.nexts])]

end_of_stream_error(d) == Res(LogErr(d, "EndOfStream", NoToken), "EndOfStream", <<>>)

syntax_error(d, token) == Res(LogErr(d, "SyntaxError", token), "SyntaxError", <<>>)

missing_field_error(d, field) ==
    Res(LogErr(d, "IncompleteValue", Str(field)), "IncompleteValue", <<>>)

\* Iterator::next of the token source: <<item>> or <<>> when exhausted.
TokenDeserializer_next(d) ==
    IF d.pos < Len(d.tokens)
    THEN [d |-> [d EXCEPT !.pos = @ + 1, !.nexts = @ + 1], item |-> <<d.tokens[d.pos + 1]>>]
    ELSE [d |-> [d EXCEPT !.nexts = @ + 1], item |-> <<>>]

\* An item of a token source that is Err(e) and not Ok(token): the items of
\* a Deserializer are Result<Token, E>.  The source of the tests yields none.
SourceErr(e) == Tok("Err", 0, e, "")

\* match self.next() { Some(Ok(token)) => .., Some(Err(err)) => .., None => .. }
Pulled(n) ==
    IF n.item = <<>> THEN end_of_stream_error(n.d)
    ELSE IF n.item[1].kind = "Err" THEN Res(n.d, n.item[1].s, <<>>)
    ELSE Ok(n.d, n.item[1])

\* expect_token that reads the end of the stream as an End token.
expect_token_exhausted_end(d) ==
    Pulled([TokenDeserializer_next(d) EXCEPT !.item = IF @ = <<>> THEN <<End>> ELSE @])

\* expect_token that calls next() once more when the source is exhausted.
expect_token_retry(d) ==
    Pulled(TokenDeserializer_next(
        IF d.pos < Len(d.tokens) THEN d ELSE TokenDeserializer_next(d).d))

expect_token(d) == Pulled(TokenDeserializer_next(d))

-----------------------------------------------------------------------------
(* num::cast: the checked conversion of std::num::NumCast.  The integer    *)
(* widths are those of a 64-bit target; TLC's integers are 32 bits wide,   *)
(* so for the widths above 32 bits every value TLC can hold lies below the *)
(* upper limit and only the lower limit is tested.                         *)

InRange(w, x) ==
    CASE w = "i8" -> -(2^7) <= x /\ x <= 2^7 - 1
      [] w = "u8" -> 0 <= x /\ x <= 2^8 - 1
      [] w = "i16" -> -(2^15) <= x /\ x <= 2^15 - 1
      [] w = "u16" -> 0 <= x /\ x <= 2^16 - 1
      [] w \in {"i32", "i64", "int", "f32", "f64"} -> TRUE
      [] w \in {"u32", "u64", "uint"} -> 0 <= x
\* A cast that wraps an unrepresentable value into the low byte.
num_cast_wrapping(x, w) == IF InRange(w, x) THEN <<x>> ELSE <<x % 2^8>>

\* <<y>> for Some(y), <<>> for None.
num_cast(x, w) == IF InRange(w, x) THEN <<x>> ELSE <<>>

-----------------------------------------------------------------------------
(* try!: go on with the value of r, or return its error at once.           *)

Try(r, K(_)) == IF IsOk(r) THEN K(r) ELSE r

-----------------------------------------------------------------------------
(* trait Deserializer: the expect operations on one already-pulled token *)

expect_bool(d, token) ==
    IF token.kind = "Bool" THEN Ok(d, token.n = 1) ELSE syntax_error(d, token)

\* to_result!(num::cast(x), self.syntax_error(Int(x)))
to_result(d, c, token) == IF c = <<>> THEN syntax_error(d, token) ELSE Ok(d, c[1])

expect_num(d, token, w) ==
    IF token.kind \in NumKinds
    THEN to_result(d, num_cast(token.n, w), Tok(token.kind, token.n, "", ""))
    ELSE syntax_error(d, token)

\* num::from_int, from_i8, ... from_f64 of std::num::FromPrimitive for a
\* primitive target: <<y>> when the value is representable, <<>> otherwise.
from_primitive(x, w) == IF InRange(w, x) THEN <<x>> ELSE <<>>

expect_from_primitive(d, token, w) ==
    IF token.kind \in NumKinds
    THEN to_result(d, from_primitive(token.n, w), Tok(token.kind, token.n, "", ""))
    ELSE syntax_error(d, token)

expect_char(d, token) ==
    IF token.kind = "Char" THEN Ok(d, token.s) ELSE syntax_error(d, token)

\* expect_str that also takes the owned String token.
expect_str_owned(d, token) ==
    IF token.kind \in {"Str", "String"} THEN Ok(d, token.s) ELSE syntax_error(d, token)

expect_str(d, token) ==
    IF token.kind = "Str" THEN Ok(d, token.s) ELSE syntax_error(d, token)

expect_string(d, token) ==
    IF token.kind \in {"Str", "String"} THEN Ok(d, token.s) ELSE syntax_error(d, token)

\* An end operation that, on a token other than End, pulls the token after
\* it as well before it reports the error.
ExpectEnd_drain(d) ==
    Try(expect_token(d),
        LAMBDA r : IF r.val.kind = "End" THEN Ok(r.d, "()")
                   ELSE syntax_error(expect_token(r.d).d, r.val))

\* match try!(self.expect_token()) { End => Ok(()), token => self.syntax_error(token) }
ExpectEnd(d) ==
    Try(expect_token(d),
        LAMBDA r : IF r.val.kind = "End" THEN Ok(r.d, "()") ELSE syntax_error(r.d, r.val))

\* expect_null that takes a TupleStart for the unit value without pulling
\* the token after it.
expect_null_nopull(d, token) ==
    IF token.kind \in {"Null", "TupleStart"} THEN Ok(d, "()") ELSE syntax_error(d, token)

expect_null(d, token) ==
    CASE token.kind = "Null" -> Ok(d, "()")
      [] token.kind = "TupleStart" -> ExpectEnd(d)
      [] OTHER -> syntax_error(d, token)

expect_tuple_start(d, token) ==
    IF token.kind = "TupleStart" THEN Ok(d, token.n) ELSE syntax_error(d, token)

expect_tuple_end(d) == ExpectEnd(d)

expect_struct_start(d, token, name) ==
    IF token.kind = "StructStart" /\ name = token.s THEN Ok(d, "()")
    ELSE syntax_error(d, token)

expect_struct_end(d) == ExpectEnd(d)

\* variants.iter().position(|variant| *variant == v): <<index>> (0-based) or <<>>.
position(variants, v) ==
    IF \E i \in DOMAIN variants : variants[i] = v
    THEN <<(CHOOSE i \in DOMAIN variants :
                /\ variants[i] = v
                /\ \A j \in DOMAIN variants : variants[j] = v => i <= j) - 1>>
    ELSE <<>>

\* expect_enum_start that does not compare the type name.
expect_enum_start_anyname(d, token, name, variants) ==
    IF token.kind = "EnumStart"
    THEN to_result(d, position(variants, token.v), token)
    ELSE syntax_error(d, token)

expect_enum_start(d, token, name, variants) ==
    IF token.kind = "EnumStart" /\ name = token.s
    THEN to_result(d, position(variants, token.v), token)
    ELSE syntax_error(d, token)

expect_enum_end(d) == ExpectEnd(d)

\* expect_seq_start that takes the SeqStart token alone.
expect_seq_start_strict(d, token) ==
    IF token.kind = "SeqStart" THEN Ok(d, token.n) ELSE syntax_error(d, token)

expect_seq_start(d, token) ==
    IF token.kind \in {"TupleStart", "SeqStart"} THEN Ok(d, token.n)
    ELSE syntax_error(d, token)

expect_map_start(d, token) ==
    IF token.kind = "MapStart" THEN Ok(d, token.n) ELSE syntax_error(d, token)

-----------------------------------------------------------------------------
(* Target types.  A type is a record with a field t naming the adapter.    *)

TBool == [t |-> "bool"]
TNum(w) == [t |-> "num", w |-> w]
TChar == [t |-> "char"]
TStr == [t |-> "str"]
TString == [t |-> "string"]
TUnit == [t |-> "unit"]
TBox(T) == [t |-> "box", of |-> T]
TOption(T) == [t |-> "option", of |-> T]
TVec(T) == [t |-> "vec", of |-> T]
TSet(T) == [t |-> "set", of |-> T]
TMap(K, V) == [t |-> "map", k |-> K, v |-> V]
TTuple(elts) == [t |-> "tuple", elts |-> elts]
\* fields: a sequence of [name, ty], in the order the decode requests them.
TStruct(name, fields) == [t |-> "struct", name |-> name, fields |-> fields]
\* variants: a sequence of [name, elts].
TEnum(name, variants) == [t |-> "enum", name |-> name, variants |-> variants]
TIgnoreTokens == [t |-> "IgnoreTokens"]
TGatherTokens == [t |-> "GatherTokens"]

-----------------------------------------------------------------------------
(* trait Deserializable and the recursive expect operations *)

RECURSIVE deserialize(_, _)
RECURSIVE deserialize_token(_, _, _)
RECURSIVE expect_option(_, _, _)
RECURSIVE tuple_elts(_, _, _)
RECURSIVE struct_fields(_, _, _)
RECURSIVE expect_struct_field(_, _, _)
RECURSIVE expect_seq_elt_or_end(_, _)
RECURSIVE expect_map_elt_or_end(_, _, _)
RECURSIVE SeqDeserializer_collect(_, _, _)
RECURSIVE SeqDeserializer_collect_len(_, _, _)
RECURSIVE MapDeserializer_collect(_, _, _, _)
RECURSIVE IgnoreTokens_deserialize_token(_, _)
RECURSIVE IgnoreTokens_seq(_)
RECURSIVE IgnoreTokens_struct(_, _)
RECURSIVE IgnoreTokens_map(_)
RECURSIVE gather(_, _)
RECURSIVE gather_token(_, _, _)
RECURSIVE gather_seq(_, _)
RECURSIVE gather_struct(_, _)
RECURSIVE gather_map(_, _)

\* Deserializable::deserialize: pull the leading token, then deserialize_token.
deserialize(T, d) == Try(expect_token(d), LAMBDA r : deserialize_token(T, r.d, r.val))

\* Ok(Some(value))
Some(r) == Ok(r.d, <<r.val>>)

\* expect_option that also takes Null for the empty optional.
expect_option_null(d, token, T) ==
    IF token.kind = "Null" \/ (token.kind = "Option" /\ token.n = 0) THEN Ok(d, <<>>)
    ELSE IF token.kind = "Option" /\ token.n = 1 THEN Try(deserialize(T, d), Some)
    ELSE syntax_error(d, token)

\* expect_option that decodes no nested value after Option(true).
expect_option_flat(d, token, T) ==
    IF token.kind = "Option" THEN Ok(d, <<>>) ELSE syntax_error(d, token)

expect_option(d, token, T) ==
    IF token.kind = "Option" /\ token.n = 0 THEN Ok(d, <<>>)
    ELSE IF token.kind = "Option" /\ token.n = 1 THEN Try(deserialize(T, d), Some)
    ELSE syntax_error(d, token)

expect_tuple_elt(d, T) == deserialize(T, d)

expect_enum_elt(d, T) == deserialize(T, d)

\* The element block of impl_deserialize_tuple!: one expect_tuple_elt per
\* component, in order, stopping at the first error (try!).
tuple_elts(d, elts, acc) ==
    IF elts = <<>> THEN Ok(d, acc)
    ELSE Try(expect_tuple_elt(d, Head(elts)),
             LAMBDA r : tuple_elts(r.d, Tail(elts), Append(acc, r.val)))

\* A tuple decode that does not require End after the last element.
tuple_deserialize_token_noend(d, token, elts) ==
    Try(expect_tuple_start(d, token), LAMBDA s : tuple_elts(s.d, elts, <<>>))

tuple_deserialize_token(d, token, elts) ==
    Try(expect_tuple_start(d, token),
        LAMBDA s : Try(tuple_elts(s.d, elts, <<>>),
        LAMBDA r : Try(expect_tuple_end(r.d),
        LAMBDA e : Ok(e.d, r.val))))

\* expect_struct_field that does not compare a Str token with the name.
expect_struct_field_anystr(d, name, T) ==
    Try(expect_token(d),
        LAMBDA r :
            IF r.val.kind = "String" /\ name # r.val.s
            THEN syntax_error(r.d, String(r.val.s))
            ELSE IF r.val.kind \notin {"Str", "String"} THEN syntax_error(r.d, r.val)
            ELSE deserialize(T, r.d))

\* expect_struct_field that reports the field missing when the struct ends.
expect_struct_field_missing(d, name, T) ==
    Try(expect_token(d),
        LAMBDA r :
            IF r.val.kind = "End" THEN missing_field_error(r.d, name)
            ELSE IF r.val.kind = "Str" /\ name # r.val.s THEN syntax_error(r.d, Str(r.val.s))
            ELSE IF r.val.kind = "String" /\ name # r.val.s
            THEN syntax_error(r.d, String(r.val.s))
            ELSE IF r.val.kind \notin {"Str", "String"} THEN syntax_error(r.d, r.val)
            ELSE deserialize(T, r.d))

expect_struct_field(d, name, T) ==
    Try(expect_token(d),
        LAMBDA r :
            IF r.val.kind = "Str" /\ name # r.val.s THEN syntax_error(r.d, Str(r.val.s))
            ELSE IF r.val.kind = "String" /\ name # r.val.s
            THEN syntax_error(r.d, String(r.val.s))
            ELSE IF r.val.kind \notin {"Str", "String"} THEN syntax_error(r.d, r.val)
            ELSE deserialize(T, r.d))

\* The field block of a hand-written struct decode (tests: Inner, Outer).
struct_fields(d, fields, acc) ==
    IF fields = <<>> THEN Ok(d, acc)
    ELSE Try(expect_struct_field(d, Head(fields).name, Head(fields).ty),
             LAMBDA r : struct_fields(r.d, Tail(fields), Append(acc, r.val)))

\* A struct decode that does not require End after the last field.
struct_deserialize_token_noend(d, token, T) ==
    Try(expect_struct_start(d, token, T.name), LAMBDA s : struct_fields(s.d, T.fields, <<>>))

struct_deserialize_token(d, token, T) ==
    Try(expect_struct_start(d, token, T.name),
        LAMBDA s : Try(struct_fields(s.d, T.fields, <<>>),
        LAMBDA r : Try(expect_struct_end(r.d),
        LAMBDA e : Ok(e.d, r.val))))

\* A hand-written enum decode (tests: Animal): the value is <<index, elts>>.
enum_deserialize_token(d, token, T) ==
    Try(expect_enum_start(d, token, T.name,
                          [i \in DOMAIN T.variants |-> T.variants[i].name]),
        LAMBDA s : Try(tuple_elts(s.d, T.variants[s.val + 1].elts, <<>>),
        LAMBDA r : Try(expect_enum_end(r.d),
        LAMBDA e : Ok(e.d, <<s.val, r.val>>))))

\* expect_seq_elt_or_end that pulls another token for the element.
expect_seq_elt_or_end_repull(d, T) ==
    Try(expect_token(d),
        LAMBDA r : IF r.val.kind = "End" THEN Ok(r.d, <<>>)
                   ELSE Try(deserialize(T, r.d), Some))

expect_seq_elt_or_end(d, T) ==
    Try(expect_token(d),
        LAMBDA r : IF r.val.kind = "End" THEN Ok(r.d, <<>>)
                   ELSE Try(deserialize_token(T, r.d, r.val), Some))

\* SeqDeserializer is [d, len, err]; next yields <<item>> or <<>>.
Yield(sd, r) ==
    IF IsOk(r) THEN [sd |-> [sd EXCEPT !.d = r.d], item |-> r.val]
    ELSE [sd |-> [sd EXCEPT !.d = r.d, !.err = <<r.err>>], item |-> <<>>]

\* SeqDeserializer::next that drops the error instead of storing it.
SeqDeserializer_next_drop(sd, T) ==
    [Yield(sd, expect_seq_elt_or_end(sd.d, T)) EXCEPT !.sd.err = <<>>]

SeqDeserializer_next(sd, T) == Yield(sd, expect_seq_elt_or_end(sd.d, T))

\* Iterator::collect: take items until next() yields None.
Collect(n, acc, More(_, _)) ==
    IF n.item = <<>> THEN [sd |-> n.sd, coll |-> acc]
    ELSE More(n.sd, Append(acc, n.item[1]))

\* A collect that takes the size hint for the number of items.
SeqDeserializer_collect_len(sd, T, acc) ==
    IF Len(acc) >= sd.len THEN [sd |-> sd, coll |-> acc]
    ELSE Collect(SeqDeserializer_next(sd, T), acc,
                 LAMBDA s, a : SeqDeserializer_collect_len(s, T, a))

SeqDeserializer_collect(sd, T, acc) ==
    Collect(SeqDeserializer_next(sd, T), acc, LAMBDA s, a : SeqDeserializer_collect(s, T, a))

\* A collection that holds the items last to first.
Collected_rev(c) ==
    IF c.sd.err # <<>> THEN Res(c.sd.d, c.sd.err[1], <<>>)
    ELSE Ok(c.sd.d, [i \in DOMAIN c.coll |-> c.coll[Len(c.coll) + 1 - i]])

\* match d.err { Some(err) => Err(err), None => Ok(collection) }
Collected(c) ==
    IF c.sd.err # <<>> THEN Res(c.sd.d, c.sd.err[1], <<>>) ELSE Ok(c.sd.d, c.coll)

expect_seq(d, token, T) ==
    Try(expect_seq_start(d, token),
        LAMBDA s : Collected(SeqDeserializer_collect(
                        [d |-> s.d, len |-> s.val, err |-> <<>>], T, <<>>)))

\* expect_map_elt_or_end that pulls a new token for the key.
expect_map_elt_or_end_fresh(d, K, V) ==
    Try(expect_token(d),
        LAMBDA r :
            IF r.val.kind = "End" THEN Ok(r.d, <<>>)
            ELSE Try(deserialize(K, r.d),
                 LAMBDA key : Try(deserialize(V, key.d),
                 LAMBDA value : Ok(value.d, <<(<<key.val, value.val>>)>>))))

expect_map_elt_or_end(d, K, V) ==
    Try(expect_token(d),
        LAMBDA r :
            IF r.val.kind = "End" THEN Ok(r.d, <<>>)
            ELSE Try(deserialize_token(K, r.d, r.val),
                 LAMBDA key : Try(deserialize(V, key.d),
                 LAMBDA value : Ok(value.d, <<(<<key.val, value.val>>)>>))))

MapDeserializer_next(md, K, V) == Yield(md, expect_map_elt_or_end(md.d, K, V))

MapDeserializer_collect(md, K, V, acc) ==
    Collect(MapDeserializer_next(md, K, V), acc,
            LAMBDA s, a : MapDeserializer_collect(s, K, V, a))

expect_map(d, token, K, V) ==
    Try(expect_map_start(d, token),
        LAMBDA s : Collected(MapDeserializer_collect(
                        [d |-> s.d, len |-> s.val, err |-> <<>>], K, V, <<>>)))

\* FromIterator for TreeSet/HashSet: the set of the items.
SetFromIter(items) == {items[i] : i \in DOMAIN items}

\* FromIterator for TreeMap/HashMap: insert in order, a later entry replacing
\* an earlier one with the same key.
MapFromIter(pairs) ==
    [k \in {pairs[i][1] : i \in DOMAIN pairs} |->
        pairs[CHOOSE i \in DOMAIN pairs :
                /\ pairs[i][1] = k
                /\ \A j \in DOMAIN pairs : pairs[j][1] = k => j <= i][2]]

-----------------------------------------------------------------------------
(* IgnoreTokens *)

\* The loop of the EnumStart, TupleStart and SeqStart arms.
IgnoreTokens_seq(d) ==
    Try(expect_token(d),
        LAMBDA r :
            IF r.val.kind = "End" THEN Ok(r.d, "IgnoreTokens")
            ELSE Try(IgnoreTokens_deserialize_token(r.d, r.val),
                     LAMBDA e : IgnoreTokens_seq(e.d)))

\* A StructStart loop that skips no value after a field name.
IgnoreTokens_struct_novalue(d, token) ==
    Try(expect_token(d),
        LAMBDA r :
            IF r.val.kind = "End" THEN Ok(r.d, "IgnoreTokens")
            ELSE IF r.val.kind \in {"Str", "String"} THEN IgnoreTokens_struct(r.d, token)
            ELSE syntax_error(r.d, token))

\* A StructStart loop that takes any token for a field name.
IgnoreTokens_struct_anyname(d, token) ==
    Try(expect_token(d),
        LAMBDA r :
            IF r.val.kind = "End" THEN Ok(r.d, "IgnoreTokens")
            ELSE Try(deserialize(TIgnoreTokens, r.d),
                     LAMBDA e : IgnoreTokens_struct(e.d, token)))

\* The loop of the StructStart arm; token is the StructStart token, which is
\* what the last arm of the loop hands to syntax_error.
IgnoreTokens_struct(d, token) ==
    Try(expect_token(d),
        LAMBDA r :
            IF r.val.kind = "End" THEN Ok(r.d, "IgnoreTokens")
            ELSE IF r.val.kind \in {"Str", "String"}
            THEN Try(deserialize(TIgnoreTokens, r.d),
                     LAMBDA e : IgnoreTokens_struct(e.d, token))
            ELSE syntax_error(r.d, token))

\* The loop of the MapStart arm.
IgnoreTokens_map(d) ==
    Try(expect_token(d),
        LAMBDA r :
            IF r.val.kind = "End" THEN Ok(r.d, "IgnoreTokens")
            ELSE Try(IgnoreTokens_deserialize_token(r.d, r.val),
                 LAMBDA key : Try(deserialize(TIgnoreTokens, key.d),
                 LAMBDA value : IgnoreTokens_map(value.d))))

\* A skip that takes End for a value.
IgnoreTokens_deserialize_token_endvalue(d, token) ==
    CASE token.kind = "Option" /\ token.n = 1 -> deserialize(TIgnoreTokens, d)
      [] token.kind = "EnumStart" -> IgnoreTokens_seq(d)
      [] token.kind = "StructStart" -> IgnoreTokens_struct(d, token)
      [] token.kind = "TupleStart" -> IgnoreTokens_seq(d)
      [] token.kind = "SeqStart" -> IgnoreTokens_seq(d)
      [] token.kind = "MapStart" -> IgnoreTokens_map(d)
      [] OTHER -> Ok(d, "IgnoreTokens")

\* A skip that reads Bool(true) as it reads Option(true).
IgnoreTokens_deserialize_token_bool(d, token) ==
    CASE token.kind \in {"Option", "Bool"} /\ token.n = 1 -> deserialize(TIgnoreTokens, d)
      [] token.kind = "EnumStart" -> IgnoreTokens_seq(d)
      [] token.kind = "StructStart" -> IgnoreTokens_struct(d, token)
      [] token.kind = "TupleStart" -> IgnoreTokens_seq(d)
      [] token.kind = "SeqStart" -> IgnoreTokens_seq(d)
      [] token.kind = "MapStart" -> IgnoreTokens_map(d)
      [] token.kind = "End" -> syntax_error(d, token)
      [] OTHER -> Ok(d, "IgnoreTokens")

\* A skip that takes Option(true) for a whole value, leaving the value
\* that follows it in the stream.
IgnoreTokens_deserialize_token_someless(d, token) ==
    CASE token.kind = "EnumStart" -> IgnoreTokens_seq(d)
      [] token.kind = "StructStart" -> IgnoreTokens_struct(d, token)
      [] token.kind = "TupleStart" -> IgnoreTokens_seq(d)
      [] token.kind = "SeqStart" -> IgnoreTokens_seq(d)
      [] token.kind = "MapStart" -> IgnoreTokens_map(d)
      [] token.kind = "End" -> syntax_error(d, token)
      [] OTHER -> Ok(d, "IgnoreTokens")

IgnoreTokens_deserialize_token(d, token) ==
    CASE token.kind = "Option" /\ token.n = 1 -> deserialize(TIgnoreTokens, d)
      [] token.kind = "EnumStart" -> IgnoreTokens_seq(d)
      [] token.kind = "StructStart" -> IgnoreTokens_struct(d, token)
      [] token.kind = "TupleStart" -> IgnoreTokens_seq(d)
      [] token.kind = "SeqStart" -> IgnoreTokens_seq(d)
      [] token.kind = "MapStart" -> IgnoreTokens_map(d)
      [] token.kind = "End" -> syntax_error(d, token)
      [] OTHER -> Ok(d, "IgnoreTokens")

-----------------------------------------------------------------------------
(* GatherTokens: g is self.tokens; a successful result carries the buffer. *)

gather(g, d) == Try(expect_token(d), LAMBDA r : gather_token(g, r.d, r.val))

gather_token(g, d, token) ==
    CASE token.kind = "Option" /\ token.n = 1 -> gather(Append(g, token), d)
      [] token.kind = "EnumStart" ->
            gather_seq(Append(g, EnumStart(token.s, token.v, token.n)), d)
      [] token.kind = "StructStart" ->
            gather_struct(Append(g, StructStart(token.s, token.n)), d)
      [] token.kind = "TupleStart" -> gather_seq(Append(g, TupleStart(token.n)), d)
      [] token.kind = "SeqStart" -> gather_seq(Append(g, SeqStart(token.n)), d)
      [] token.kind = "MapStart" -> gather_map(Append(g, MapStart(token.n)), d)
      [] token.kind = "End" -> syntax_error(d, token)
      [] OTHER -> Ok(d, Append(g, token))

\* gather_seq that does not push the closing End.
gather_seq_noend(g, d) ==
    Try(expect_token(d),
        LAMBDA r :
            IF r.val.kind = "End" THEN Ok(r.d, g)
            ELSE Try(gather_token(g, r.d, r.val), LAMBDA e : gather_seq(e.val, e.d)))

gather_seq(g, d) ==
    Try(expect_token(d),
        LAMBDA r :
            IF r.val.kind = "End" THEN Ok(r.d, Append(g, r.val))
            ELSE Try(gather_token(g, r.d, r.val), LAMBDA e : gather_seq(e.val, e.d)))

\* gather_struct that does not push the field name.
gather_struct_noname(g, d) ==
    Try(expect_token(d),
        LAMBDA r :
            IF r.val.kind = "End" THEN Ok(r.d, Append(g, r.val))
            ELSE IF r.val.kind \in {"Str", "String"}
            THEN Try(gather(g, r.d), LAMBDA e : gather_struct(e.val, e.d))
            ELSE syntax_error(r.d, r.val))

gather_struct(g, d) ==
    Try(expect_token(d),
        LAMBDA r :
            IF r.val.kind = "End" THEN Ok(r.d, Append(g, r.val))
            ELSE IF r.val.kind \in {"Str", "String"}
            THEN Try(gather(Append(g, r.val), r.d), LAMBDA e : gather_struct(e.val, e.d))
            ELSE syntax_error(r.d, r.val))

\* gather_map that does not push the closing End.
gather_map_noend(g, d) ==
    Try(expect_token(d),
        LAMBDA r :
            IF r.val.kind = "End" THEN Ok(r.d, g)
            ELSE Try(gather_token(g, r.d, r.val),
                 LAMBDA key : Try(gather(key.val, key.d),
                 LAMBDA value : gather_map(value.val, value.d))))

gather_map(g, d) ==
    Try(expect_token(d),
        LAMBDA r :
            IF r.val.kind = "End" THEN Ok(r.d, Append(g, End))
            ELSE Try(gather_token(g, r.d, r.val),
                 LAMBDA key : Try(gather(key.val, key.d),
                 LAMBDA value : gather_map(value.val, value.d))))

\* impl Deserializable for GatherTokens; unwrap() of the value is the buffer.
GatherTokens_deserialize_token(d, token) == gather_token(<<>>, d, token)

GatherTokens_unwrap(g) == g

-----------------------------------------------------------------------------
(* The Deserializable impls, by target type *)

\* The collection a sequence of items is collected into.
IntoSet(r) == Ok(r.d, SetFromIter(r.val))

IntoMap(r) == Ok(r.d, MapFromIter(r.val))

deserialize_token(T, d, token) ==
    CASE T.t = "bool" -> expect_bool(d, token)
      [] T.t = "num" -> expect_num(d, token, T.w)
      [] T.t = "char" -> expect_char(d, token)
      [] T.t = "str" -> expect_str(d, token)
      [] T.t = "string" -> expect_string(d, token)
      [] T.t = "box" -> deserialize_token(T.of, d, token)
      [] T.t = "option" -> expect_option(d, token, T.of)
      [] T.t = "vec" -> expect_seq(d, token, T.of)
      [] T.t = "set" -> Try(expect_seq(d, token, T.of), IntoSet)
      [] T.t = "map" -> Try(expect_map(d, token, T.k, T.v), IntoMap)
      [] T.t = "unit" -> expect_null(d, token)
      [] T.t = "tuple" -> tuple_deserialize_token(d, token, T.elts)
      [] T.t = "struct" -> struct_deserialize_token(d, token, T)
      [] T.t = "enum" -> enum_deserialize_token(d, token, T)
      [] T.t = "IgnoreTokens" -> IgnoreTokens_deserialize_token(d, token)
      [] T.t = "GatherTokens" -> GatherTokens_deserialize_token(d, token)

-----------------------------------------------------------------------------
(* Token streams handed to TokenDeserializer::new *)

MaxLen == 4
MaxValueLen == 6

\* Every token vector of at most n tokens over the alphabet A.
Vectors(A, n) == UNION {[1..k -> A] : k \in 0..n}

\* The structurally complete values of exactly n tokens: a scalar of S; or
\* Option(true) and a value; or an opener, its elements and End, the elements
\* being values (tuple, seq, enum), name/value pairs with a name of N
\* (struct), or key/value pairs (map).
RECURSIVE Values(_, _, _)
RECURSIVE ValueLists(_, _, _)
RECURSIVE StructBodies(_, _, _)
RECURSIVE MapBodies(_, _, _)

SeqOpeners == {TupleStart(1), SeqStart(1), EnumStart("E", "A", 1)}

Values(n, S, N) ==
    IF n < 1 THEN {}
    ELSE IF n = 1 THEN {<<s>> : s \in S}
    ELSE {<<Option(TRUE)>> \o v : v \in Values(n - 1, S, N)}
         \cup {<<o>> \o b \o <<End>> : o \in SeqOpeners, b \in ValueLists(n - 2, S, N)}
         \cup {<<StructStart("P", 1)>> \o b \o <<End>> : b \in StructBodies(n - 2, S, N)}
         \cup {<<MapStart(1)>> \o b \o <<End>> : b \in MapBodies(n - 2, S, N)}

ValueLists(m, S, N) ==
    IF m = 0 THEN {<<>>}
    ELSE UNION {{v \o l : v \in Values(k, S, N), l \in ValueLists(m - k, S, N)} : k \in 1..m}

StructBodies(m, S, N) ==
    IF m = 0 THEN {<<>>}
    ELSE UNION {{<<nm>> \o v \o l : nm \in N, v \in Values(k, S, N),
                                   l \in StructBodies(m - 1 - k, S, N)} : k \in 1..(m - 1)}

MapBodies(m, S, N) ==
    IF m = 0 THEN {<<>>}
    ELSE UNION {{kv[1] \o kv[2] \o l :
                    kv \in Values(jk[1], S, N) \X Values(jk[2], S, N),
                    l \in MapBodies(m - jk[1] - jk[2], S, N)} :
                jk \in {p \in (1..m) \X (1..m) : p[1] + p[2] <= m}}

ValuesUpTo(n, S, N) == UNION {Values(k, S, N) : k \in 1..n}

Alphabet ==
    {IntTok(1), Str("x"), Option(TRUE), Option(FALSE), TupleStart(1), StructStart("P", 1),
     EnumStart("E", "A", 1), SeqStart(1), MapStart(1), End}

Scalars == {IntTok(1), Str("x"), Option(FALSE)}

Names == {Str("x")}

Suffixes == {<<>>, <<End>>, <<IntTok(1)>>}

\* The token vectors of the tests (test_primitives .. test_treemaps).
TestVectors ==
    {<<Null>>, <<Bool(TRUE)>>, <<Bool(FALSE)>>, <<IntTok(5)>>, <<I8(5)>>, <<U64(5)>>,
     <<F64(5)>>, <<Char("c")>>, <<Str("abc")>>, <<String("abc")>>,
     <<TupleStart(0), End>>,
     <<TupleStart(2), IntTok(5), Str("a"), End>>,
     <<TupleStart(3), Null, TupleStart(0), End,
       TupleStart(2), IntTok(5), Str("a"), End, End>>,
     <<Option(FALSE)>>,
     <<Option(TRUE), IntTok(5)>>,
     <<StructStart("Outer", 1), Str("inner"), SeqStart(0), End, End>>,
     <<StructStart("Outer", 1), Str("inner"), SeqStart(1),
         StructStart("Inner", 3),
           Str("a"), Null,
           Str("b"), Uint(5),
           Str("c"), MapStart(1), String("abc"), Option(TRUE), Char("c"), End,
         End,
       End, End>>,
     <<EnumStart("Animal", "Dog", 0), End>>,
     <<EnumStart("Animal", "Frog", 2), String("Henry"), IntTok(349), End>>,
     <<SeqStart(0), End>>,
     <<SeqStart(3), IntTok(5), IntTok(6), IntTok(7), End>>,
     <<SeqStart(3), SeqStart(1), IntTok(1), End, SeqStart(2), IntTok(2), IntTok(3), End,
       SeqStart(3), IntTok(4), IntTok(5), IntTok(6), End, End>>,
     <<MapStart(0), End>>,
     <<MapStart(2), IntTok(5), String("a"), IntTok(6), String("b"), End>>,
     <<MapStart(1), Str("k"), SeqStart(2), IntTok(1), IntTok(2), End, End>>,
     <<EnumStart("Shape", "Circle", 1), IntTok(5), End>>}

Prefixes(v) == {SubSeq(v, 1, k) : k \in 0..Len(v)}

\* The test vectors, whole with something after them, and cut short.
TestStreams ==
    {v \o t : v \in TestVectors, t \in Suffixes} \cup UNION {Prefixes(v) : v \in TestVectors}

\* The values of at most n tokens, each with something after it.
ValueStreams(n, S, N, after) == {v \o t : v \in ValuesUpTo(n, S, N), t \in after}

-----------------------------------------------------------------------------
(* Target types of the typed decodes *)

TInt == TNum("int")

\* tests: struct Inner, struct Outer, enum Animal.
TInner ==
    TStruct("Inner", <<[name |-> "a", ty |-> TUnit],
                       [name |-> "b", ty |-> TNum("uint")],
                       [name |-> "c", ty |-> TMap(TString, TOption(TChar))]>>)

TOuter == TStruct("Outer", <<[name |-> "inner", ty |-> TVec(TInner)]>>)

TAnimal ==
    TEnum("Animal", <<[name |-> "Dog", elts |-> <<>>],
                      [name |-> "Frog", elts |-> <<TString, TInt>>]>>)

\* A struct P decoded field x then field y, and the same decoded y then x.
TPxy == TStruct("P", <<[name |-> "x", ty |-> TInt], [name |-> "y", ty |-> TInt]>>)

TPyx == TStruct("P", <<[name |-> "y", ty |-> TInt], [name |-> "x", ty |-> TInt]>>)

TE == TEnum("E", <<[name |-> "A", elts |-> <<TInt>>], [name |-> "B", elts |-> <<>>]>>)

Types ==
    <<TInt, TNum("u8"), TString, TUnit,
      TOption(TInt), TOption(TString), TOption(TOption(TInt)), TOption(TVec(TInt)),
      TTuple(<<TInt, TStr>>), TTuple(<<TUnit, TInt>>),
      TVec(TInt), TVec(TVec(TInt)), TSet(TInt), TBox(TVec(TOption(TInt))),
      TMap(TInt, TString), TMap(TString, TVec(TInt)),
      TPxy, TPyx, TStruct("P", <<[name |-> "x", ty |-> TIgnoreTokens]>>),
      TOuter, TAnimal, TE>>

-----------------------------------------------------------------------------
(* Streams of the typed decodes *)

MaxShort == 3
MaxTypedLen == 5

TypedAlphabet ==
    {IntTok(1), IntTok(2), Null, Str("x"), Option(TRUE), Option(FALSE), TupleStart(1),
     StructStart("P", 1), EnumStart("E", "A", 1), SeqStart(1), MapStart(1), End}

TypedScalars == {IntTok(1), IntTok(2), Null, Str("x"), Option(FALSE)}

TypedNames == {Str("x"), Str("y")}

\* Regions of a two-field struct P: every choice of name and value tokens.
StructVectors ==
    {<<StructStart("P", 2), n1, v1, n2, v2, End>> :
        n1 \in {Str("x"), Str("y"), String("x"), IntTok(1)},
        v1 \in {IntTok(1), Str("x")},
        n2 \in {Str("x"), Str("y"), String("y"), End},
        v2 \in {IntTok(2), End}}

TypedSuffixes == {<<>>, <<End>>}

StructStreams == {v \o t : v \in StructVectors, t \in TypedSuffixes}

-----------------------------------------------------------------------------
(* The state machine: a deserializer is built over a token vector and one  *)
(* value is decoded from it; a gathered buffer can be decoded again.       *)
(*   tokens  the vector the live deserializer was built over               *)
(*   call    the operation that ran last ("new": none yet)                 *)
(*   target  the type a typed decode was asked for                         *)
(*   ret     what the operation returned, with the deserializer it used    *)

NoTarget == [t |-> "none"]

Start(streams) ==
    /\ tokens \in streams
    /\ call = "new"
    /\ target = NoTarget
    /\ ret = Ok(TokenDeserializer_new(tokens), <<>>)

\* Every short vector over the alphabet, the complete values with something
\* after them, and the vectors of the tests.
Init ==
    \/ Start(Vectors(Alphabet, MaxLen))
    \/ Start(ValueStreams(MaxValueLen, Scalars, Names, Suffixes))
    \/ Start(TestStreams)

InitTyped ==
    \/ Start(Vectors(TypedAlphabet, MaxShort))
    \/ Start(ValueStreams(MaxTypedLen, TypedScalars, TypedNames, TypedSuffixes))
    \/ Start(StructStreams)
    \/ Start(TestStreams)

\* let _: IgnoreTokens = Deserializable::deserialize(&mut d)
Ignore ==
    /\ call = "new"
    /\ call' = "IgnoreTokens"
    /\ ret' = deserialize(TIgnoreTokens, ret.d)
    /\ UNCHANGED <<tokens, target>>

\* let g: GatherTokens = Deserializable::deserialize(&mut d)
Gather ==
    /\ call = "new"
    /\ call' = "GatherTokens"
    /\ ret' = deserialize(TGatherTokens, ret.d)
    /\ UNCHANGED <<tokens, target>>

\* let value: T = Deserializable::deserialize(&mut d)
Decode(T) ==
    /\ call = "new"
    /\ call' = "decode"
    /\ target' = T
    /\ ret' = deserialize(T, ret.d)
    /\ UNCHANGED tokens

\* The buffer of a successful gather is fed to a new deserializer:
\* Deserializable::deserialize(&mut TokenDeserializer::new(g.unwrap().move_iter()))
Redecode(T) ==
    /\ call = "GatherTokens"
    /\ IsOk(ret)
    /\ call' = "redecode"
    /\ target' = T
    /\ ret' = deserialize(T, TokenDeserializer_new(GatherTokens_unwrap(ret.val)))
    /\ UNCHANGED tokens

Next == Ignore \/ Gather

Spec == Init /\ [][Next]_vars

NextTyped ==
    \/ Ignore
    \/ Gather
    \/ \E i \in DOMAIN Types : Decode(Types[i])
    \/ \E i \in DOMAIN Types : Redecode(Types[i])

SpecTyped == InitTyped /\ [][NextTyped]_vars

-----------------------------------------------------------------------------
(* expect_num on one numeric token, for every numeric target type *)

IntKinds == {"Int", "I8", "I16", "I32", "I64", "Uint", "U8", "U16", "U32", "U64"}

IntWidths == {"int", "i8", "i16", "i32", "i64", "uint", "u8", "u16", "u32", "u64"}

\* The width of the payload of a numeric token kind.
KindWidth(k) ==
    CASE k = "Int" -> "int" [] k = "I8" -> "i8" [] k = "I16" -> "i16" [] k = "I32" -> "i32"
      [] k = "I64" -> "i64" [] k = "Uint" -> "uint" [] k = "U8" -> "u8"
      [] k = "U16" -> "u16" [] k = "U32" -> "u32" [] k = "U64" -> "u64"
      [] k = "F32" -> "f32" [] k = "F64" -> "f64"

\* Payloads around the limits of the 8- and 16-bit types.
NumSamples ==
    {-32769, -32768, -129, -128, -1, 0, 1, 5, 127, 128, 255, 256, 300,
     32767, 32768, 65535, 65536}

NumTokens == {Tok(k, x, "", "") : k \in NumKinds, x \in NumSamples}

NumStreams ==
    {<<t>> : t \in {u \in NumTokens : InRange(KindWidth(u.kind), u.n)}}
    \cup {<<Str("5")>>, <<Bool(TRUE)>>, <<Null>>}

NumTypes ==
    <<TNum("int"), TNum("i8"), TNum("i16"), TNum("i32"), TNum("i64"), TNum("uint"),
      TNum("u8"), TNum("u16"), TNum("u32"), TNum("u64"), TNum("f32"), TNum("f64")>>

InitNum == Start(NumStreams)

NextNum == \E i \in DOMAIN NumTypes : Decode(NumTypes[i])

SpecNum == InitNum /\ [][NextNum]_vars

-----------------------------------------------------------------------------
(* expect_enum_start on one leading token, for several variant lists *)

EnumNames == {"Animal", "E", "Shape"}

VariantNames == {"Dog", "Frog", "A", "B", "Cat"}

EnumTokens ==
    {EnumStart(n, v, len) : n \in EnumNames, v \in VariantNames, len \in 0..2}
    \cup {StructStart("Animal", 1), TupleStart(1), Str("Dog"), String("Animal"),
          IntTok(0), Null, End}

\* The requests of the tests' Animal, of E, and of a list naming A twice.
EnumRequests ==
    <<[name |-> "Animal", variants |-> <<"Dog", "Frog">>],
      [name |-> "E", variants |-> <<"A", "B">>],
      [name |-> "E", variants |-> <<"B", "A", "Cat", "A">>],
      [name |-> "Shape", variants |-> <<>>]>>

InitEnum == Start({<<t>> \o s : t \in EnumTokens, s \in {<<>>, <<End>>, <<IntTok(1)>>}})

\* The start of a hand-written enum decode: deserialize pulls the leading
\* token and deserialize_token hands it to d.expect_enum_start.
ExpectEnumStart(name, variants) ==
    /\ call = "new"
    /\ call' = "expect_enum_start"
    /\ target' = [t |-> "enum_start", name |-> name, variants |-> variants]
    /\ ret' = Try(expect_token(ret.d),
                  LAMBDA r : expect_enum_start(r.d, r.val, name, variants))
    /\ UNCHANGED tokens

NextEnum ==
    \E i \in DOMAIN EnumRequests :
        ExpectEnumStart(EnumRequests[i].name, EnumRequests[i].variants)

SpecEnum == InitEnum /\ [][NextEnum]_vars

-----------------------------------------------------------------------------
(* Tuples and the unit type: impl_deserialize_tuple! *)

MaxTupleLen == 5

TupleAlphabet ==
    {TupleStart(0), TupleStart(3), IntTok(1), IntTok(2), Str("x"), Null, End}

\* (), (int,), (int, &str), (int, int, &str), and the nested tuple of
\* test_tuples: ((), (), (int, &str)).
TupleTypes ==
    <<TUnit, TTuple(<<TInt>>), TTuple(<<TInt, TStr>>), TTuple(<<TInt, TInt, TStr>>),
      TTuple(<<TUnit, TUnit, TTuple(<<TInt, TStr>>)>>)>>

InitTuple ==
    \/ Start(Vectors(TupleAlphabet, MaxTupleLen))
    \/ Start(TestStreams)

NextTuple == \E i \in DOMAIN TupleTypes : Decode(TupleTypes[i])

SpecTuple == InitTuple /\ [][NextTuple]_vars

-----------------------------------------------------------------------------
(* Streams of a token source that can fail *)

\* v with its k-th item replaced by an error of the source (k = Len(v) + 1:
\* the error follows v).
WithErr(v, k) == SubSeq(v, 1, k - 1) \o <<SourceErr("Io")>> \o SubSeq(v, k + 1, Len(v))

ErrStreams ==
    UNION {{WithErr(v, k) : k \in 1..(Len(v) + 1)} :
            v \in TestVectors \cup ValuesUpTo(MaxShort + 1, TypedScalars, TypedNames)}

InitSource ==
    \/ InitTyped
    \/ Start(ErrStreams)

SpecSource == InitSource /\ [][NextTyped]_vars

-----------------------------------------------------------------------------
(* Struct decodes written with expect_struct_start / _field / _end *)

MaxStructLen == 5

StructOpeners ==
    {StructStart("P", 2), StructStart("P", 0), StructStart("Q", 2), SeqStart(2), Str("P")}

StructAlphabet == {Str("x"), Str("y"), String("x"), IntTok(1), IntTok(2), End}

TPx == TStruct("P", <<[name |-> "x", ty |-> TInt]>>)

StructTypes == <<TPx, TPxy, TPyx, TStruct("P", <<>>)>>

InitStruct ==
    Start({<<o>> \o b : o \in StructOpeners, b \in Vectors(StructAlphabet, MaxStructLen)})

NextStruct == \E i \in DOMAIN StructTypes : Decode(StructTypes[i])

SpecStruct == InitStruct /\ [][NextStruct]_vars

-----------------------------------------------------------------------------
(* SpecExpect: the expect operations of trait Deserializer called one at a *)
(* time, as a Deserializable impl calls them: a token is pulled with       *)
(* expect_token and handed to one operation, or one of the three end       *)
(* operations is called on the deserializer.                               *)

\* One token of every variant, with the payloads that tell the cases apart.
ExpectTokens ==
    {Null, Bool(TRUE), Bool(FALSE), IntTok(5), IntTok(300), IntTok(-1), I8(5),
     U8(200), U64(7), F64(5), Char("c"), Str("a"), Str(""), String("a"),
     Option(TRUE), Option(FALSE), TupleStart(0), TupleStart(2),
     StructStart("P", 1), StructStart("Q", 1), EnumStart("E", "A", 0),
     EnumStart("E", "C", 0), EnumStart("Q", "A", 0), SeqStart(0), SeqStart(3),
     MapStart(0), MapStart(2), End}

\* What follows the first token in the vector.
ExpectSuffixes ==
    {<<>>, <<End>>, <<IntTok(1)>>, <<IntTok(1), End>>, <<Str("a"), End>>,
     <<IntTok(1), IntTok(2), End>>}

ExpectStreams == {<<t>> \o s : t \in ExpectTokens, s \in ExpectSuffixes}

\* The operations that take the pulled token, with their other arguments.
ExpectRequest(op, w, name, variants) ==
    [t |-> "expect", op |-> op, w |-> w, name |-> name, variants |-> variants]

TokenOps ==
    {ExpectRequest(op, "", "", <<>>) :
        op \in {"expect_bool", "expect_char", "expect_str", "expect_string",
                "expect_tuple_start", "expect_seq_start", "expect_map_start"}}
    \cup {ExpectRequest(op, w, "", <<>>) :
        op \in {"expect_num", "expect_from_primitive"}, w \in {"int", "u8", "i8"}}
    \cup {ExpectRequest("expect_struct_start", "", "P", <<>>)}
    \cup {ExpectRequest("expect_enum_start", "", "E", <<"A", "B">>)}

EndOps == {"expect_tuple_end", "expect_struct_end", "expect_enum_end"}

\* The types whose decode starts with one of the operations above.
ExpectTypes ==
    <<TBool, TChar, TStr, TString, TVec(TInt), TSet(TInt), TVec(TStr),
      TTuple(<<TInt>>), TTuple(<<TInt, TInt>>), TMap(TInt, TInt)>>

InitExpect == Start(ExpectStreams)

\* let token = try!(d.expect_token())
ExpectToken ==
    /\ call = "new"
    /\ call' = "expect_token"
    /\ ret' = expect_token(ret.d)
    /\ UNCHANGED <<tokens, target>>

\* d.expect_bool(token), d.expect_num(token), ...
ExpectOp(q) ==
    /\ call = "expect_token"
    /\ IsOk(ret)
    /\ call' = q.op
    /\ target' = q
    /\ ret' = CASE q.op = "expect_bool" -> expect_bool(ret.d, ret.val)
                [] q.op = "expect_num" -> expect_num(ret.d, ret.val, q.w)
                [] q.op = "expect_from_primitive" ->
                       expect_from_primitive(ret.d, ret.val, q.w)
                [] q.op = "expect_char" -> expect_char(ret.d, ret.val)
                [] q.op = "expect_str" -> expect_str(ret.d, ret.val)
                [] q.op = "expect_string" -> expect_string(ret.d, ret.val)
                [] q.op = "expect_tuple_start" -> expect_tuple_start(ret.d, ret.val)
                [] q.op = "expect_struct_start" ->
                       expect_struct_start(ret.d, ret.val, q.name)
                [] q.op = "expect_enum_start" ->
                       expect_enum_start(ret.d, ret.val, q.name, q.variants)
                [] q.op = "expect_seq_start" -> expect_seq_start(ret.d, ret.val)
                [] q.op = "expect_map_start" -> expect_map_start(ret.d, ret.val)
    /\ UNCHANGED tokens

\* d.expect_tuple_end(), d.expect_struct_end(), d.expect_enum_end()
ExpectEndOp(op) ==
    /\ call = "expect_token"
    /\ IsOk(ret)
    /\ call' = op
    /\ target' = ExpectRequest(op, "", "", <<>>)
    /\ ret' = CASE op = "expect_tuple_end" -> expect_tuple_end(ret.d)
                [] op = "expect_struct_end" -> expect_struct_end(ret.d)
                [] op = "expect_enum_end" -> expect_enum_end(ret.d)
    /\ UNCHANGED tokens

NextExpect ==
    \/ ExpectToken
    \/ \E q \in TokenOps : ExpectOp(q)
    \/ \E op \in EndOps : ExpectEndOp(op)
    \/ \E i \in DOMAIN ExpectTypes : Decode(ExpectTypes[i])

SpecExpect == InitExpect /\ [][NextExpect]_vars

-----------------------------------------------------------------------------
(* Properties *)

Fresh == TokenDeserializer_new(tokens)

Openers == {"TupleStart", "StructStart", "EnumStart", "SeqStart", "MapStart"}

\* A token that is a whole value by itself.
ScalarToken(t) == t.kind \notin (Openers \cup {"End"}) /\ ~(t.kind = "Option" /\ t.n = 1)

\* s is one structurally complete value, by the grammar of the token model.
RECURSIVE IsValue(_)
RECURSIVE IsValueList(_)
RECURSIVE IsStructBody(_)
RECURSIVE IsMapBody(_)

IsValue(s) ==
    /\ Len(s) >= 1
    /\ \/ Len(s) = 1 /\ ScalarToken(s[1])
       \/ s[1] = Option(TRUE) /\ IsValue(Tail(s))
       \/ /\ Len(s) >= 2
          /\ s[Len(s)] = End
          /\ LET body == SubSeq(s, 2, Len(s) - 1)
             IN  \/ s[1].kind \in {"TupleStart", "SeqStart", "EnumStart"} /\ IsValueList(body)
                 \/ s[1].kind = "StructStart" /\ IsStructBody(body)
                 \/ s[1].kind = "MapStart" /\ IsMapBody(body)

IsValueList(b) ==
    \/ b = <<>>
    \/ \E k \in 1..Len(b) : IsValue(SubSeq(b, 1, k)) /\ IsValueList(SubSeq(b, k + 1, Len(b)))

IsStructBody(b) ==
    \/ b = <<>>
    \/ /\ b[1].kind \in {"Str", "String"}
       /\ \E k \in 2..Len(b) :
            IsValue(SubSeq(b, 2, k)) /\ IsStructBody(SubSeq(b, k + 1, Len(b)))

IsMapBody(b) ==
    \/ b = <<>>
    \/ \E j \in 1..Len(b) : \E k \in (j + 1)..Len(b) :
            /\ IsValue(SubSeq(b, 1, j))
            /\ IsValue(SubSeq(b, j + 1, k))
            /\ IsMapBody(SubSeq(b, k + 1, Len(b)))

\* The spec's skip scenario: a map holding a two-element sequence.
MapOfSeq == <<MapStart(1), Str("k"), SeqStart(2), IntTok(1), IntTok(2), End, End>>

\* C1: when the stream starts with a structurally complete value of k tokens,
\* whatever follows it, IgnoreTokens succeeds having pulled exactly those k
\* tokens, so the stream stands at the first token after the value.
C1_SkipStopsAfterValue ==
    call = "IgnoreTokens" =>
        \A k \in 1..Len(tokens) :
            IsValue(SubSeq(tokens, 1, k)) =>
                IsOk(ret) /\ ret.d.pos = k /\ ret.d.nexts = k

C1_Witness ==
    /\ call = "IgnoreTokens"
    /\ tokens = MapOfSeq \o <<End>>
    /\ IsOk(ret)
    /\ ret.d.pos = Len(MapOfSeq)

\* C2: the buffer of a successful GatherTokens is the leading token followed
\* by every token pulled, in stream order: the first pos tokens of the stream,
\* one buffer entry per pull.
C2_GatherBufferIsPulledTokens ==
    (call = "GatherTokens" /\ IsOk(ret)) =>
        /\ GatherTokens_unwrap(ret.val) = SubSeq(tokens, 1, ret.d.pos)
        /\ Len(GatherTokens_unwrap(ret.val)) = ret.d.nexts

C2_Witness ==
    /\ call = "GatherTokens"
    /\ IsOk(ret)
    /\ tokens = MapOfSeq \o <<IntTok(1)>>
    /\ ret.val = MapOfSeq

\* C3: decoding a type from the buffer GatherTokens captured gives the result
\* that decoding the same type from the live stream gives: the same error
\* kind, or the same value.
C3_RedecodeEqualsDirect ==
    call = "redecode" =>
        LET direct == deserialize(target, Fresh)
        IN  /\ ret.err = direct.err
            /\ IsOk(direct) => ret.val = direct.val

C3_Witness ==
    /\ call = "redecode"
    /\ target.t = "struct"
    /\ target.name = "Outer"
    /\ IsOk(ret)
    /\ Len(tokens) = 18
    /\ Len(ret.val[1]) = 1

\* C4: on every stream GatherTokens and IgnoreTokens end alike: both succeed
\* or both fail with the same kind of error, after the same number of pulls.
C4_GatherMatchesIgnore ==
    call = "IgnoreTokens" =>
        LET g == deserialize(TGatherTokens, Fresh)
        IN  /\ g.err = ret.err
            /\ g.d.pos = ret.d.pos
            /\ g.d.nexts = ret.d.nexts

C4_Witness ==
    /\ call = "IgnoreTokens"
    /\ tokens = <<StructStart("P", 1), Str("x"), IntTok(1), IntTok(1)>>
    /\ ret.err = "SyntaxError"
    /\ ret.d.pos = 4

NameIs(token, name) == token.kind \in {"Str", "String"} /\ token.s = name

IntFields(T) == \A i \in DOMAIN T.fields : T.fields[i].ty.t = "num"

\* C5: in a struct decode whose fields are numbers (one token each), the
\* decode goes on past a name token only if it is a Str or String equal to
\* the requested name, and at the first name token that is not, it fails with
\* a syntax error on that token before the field's value is pulled.
C5_StructFieldOrder ==
    (/\ call = "decode"
     /\ target.t = "struct"
     /\ IntFields(target)
     /\ Len(tokens) >= 1
     /\ tokens[1].kind = "StructStart"
     /\ tokens[1].s = target.name) =>
        \A j \in DOMAIN target.fields :
            (/\ Len(tokens) >= 2 * j
             /\ \A i \in 1..(j - 1) :
                    /\ NameIs(tokens[2 * i], target.fields[i].name)
                    /\ tokens[2 * i + 1].kind \in NumKinds) =>
                IF NameIs(tokens[2 * j], target.fields[j].name)
                THEN Len(tokens) > 2 * j => ret.d.pos > 2 * j
                ELSE /\ ret.err = "SyntaxError"
                     /\ ret.d.pos = 2 * j
                     /\ ret.d.nexts = 2 * j
                     /\ ret.d.errs = <<[kind |-> "SyntaxError", tok |-> tokens[2 * j],
                                        at |-> 2 * j]>>

\* x then y in the stream, y then x requested: every name is there.
C5_Witness ==
    /\ call = "decode"
    /\ target.t = "struct"
    /\ target.fields[1].name = "y"
    /\ tokens = <<StructStart("P", 2), Str("x"), IntTok(1), Str("y"), IntTok(2), End>>
    /\ ret.err = "SyntaxError"
    /\ ret.d.pos = 2

\* C6: a call that fails has raised exactly one error, returns that error and
\* no value, and has not called next() after raising it; a call that
\* succeeds has raised none.
C6_FailFast ==
    call # "new" =>
        IF IsOk(ret) THEN ret.d.errs = <<>>
        ELSE /\ Len(ret.d.errs) = 1
             /\ ret.d.errs[1].kind = ret.err
             /\ ret.d.errs[1].at = ret.d.nexts
             /\ ret.val = <<>>

\* A sequence whose second element fails, with tokens left after it.
C6_Witness ==
    /\ call = "decode"
    /\ target.t = "vec"
    /\ ret.err = "SyntaxError"
    /\ ret.d.pos = 3
    /\ Len(tokens) > 3
    /\ tokens[2].kind = "Int"

MaxHint == 3

\* The stream with every opener's count replaced by h.
Rehint(v, h) ==
    [i \in DOMAIN v |-> IF v[i].kind \in Openers THEN [v[i] EXCEPT !.n = h] ELSE v[i]]

\* C7: replacing the counts of the openers by any other count changes neither
\* the outcome, nor the value, nor the number of tokens pulled, of a typed
\* decode or of IgnoreTokens.
C7_CountIsNotAuthoritative ==
    call \in {"decode", "IgnoreTokens"} =>
        \A h \in 0..MaxHint :
            LET r == deserialize(IF call = "decode" THEN target ELSE TIgnoreTokens,
                                 TokenDeserializer_new(Rehint(tokens, h)))
            IN  /\ r.err = ret.err
                /\ r.d.pos = ret.d.pos
                /\ IsOk(ret) => r.val = ret.val

C7_Witness ==
    /\ call = "decode"
    /\ target.t = "vec"
    /\ tokens = <<SeqStart(1), IntTok(1), IntTok(2), End>>
    /\ IsOk(ret)
    /\ ret.val = <<1, 2>>

\* The values an integer type holds (64-bit int and uint; above 32 bits only
\* the lower limit can be met by a value TLC holds).
Representable(w, x) ==
    CASE w = "i8" -> -128 <= x /\ x <= 127
      [] w = "u8" -> 0 <= x /\ x <= 255
      [] w = "i16" -> -32768 <= x /\ x <= 32767
      [] w = "u16" -> 0 <= x /\ x <= 65535
      [] w \in {"i32", "i64", "int"} -> TRUE
      [] w \in {"u32", "u64", "uint"} -> 0 <= x

\* C8: expect_num of an integer token into an integer type gives the token's
\* value when the type holds it, and otherwise a syntax error built from the
\* token, and no value.
C8_NumCastExactOrError ==
    (/\ call = "decode"
     /\ target.t = "num"
     /\ target.w \in IntWidths
     /\ tokens[1].kind \in IntKinds) =>
        IF Representable(target.w, tokens[1].n)
        THEN IsOk(ret) /\ ret.val = tokens[1].n
        ELSE /\ ret.err = "SyntaxError"
             /\ ret.d.errs = <<[kind |-> "SyntaxError", tok |-> tokens[1], at |-> 1]>>
             /\ ret.val = <<>>

\* 300 into u8.
C8_Witness ==
    /\ call = "decode"
    /\ target.w = "u8"
    /\ tokens = <<IntTok(300)>>
    /\ ret.err = "SyntaxError"

\* C9 as stated: [Null] decodes to the empty optional.
C9_NullDecodesToNone ==
    (call = "decode" /\ target.t = "option" /\ tokens = <<Null>>) =>
        IsOk(ret) /\ ret.val = <<>>

\* C9, amended: the one-token stream [Option(false)] decodes to the empty
\* optional of any element type; [Null] is a syntax error on the Null token.
C9_OptionFalseDecodesToNone ==
    (call = "decode" /\ target.t = "option") =>
        /\ tokens = <<Option(FALSE)>> => IsOk(ret) /\ ret.val = <<>> /\ ret.d.pos = 1
        /\ tokens = <<Null>> =>
            /\ ret.err = "SyntaxError"
            /\ ret.d.errs = <<[kind |-> "SyntaxError", tok |-> Null, at |-> 1]>>

C9_Witness ==
    /\ call = "decode"
    /\ target.t = "option"
    /\ target.of.t = "string"
    /\ tokens = <<Option(FALSE)>>
    /\ IsOk(ret)
    /\ ret.val = <<>>

\* The deserializer after the leading token was pulled.
AfterLeading == [Fresh EXCEPT !.pos = 1, !.nexts = 1]

\* C10: an optional decoded from Option(false) is empty and nothing more is
\* pulled; from Option(true) the outcome is that of one decode of the element
\* type from the following tokens: its value wrapped as present, or its error
\* and no value.
C10_ExpectOption ==
    (call = "decode" /\ target.t = "option" /\ Len(tokens) >= 1) =>
        /\ tokens[1] = Option(FALSE) =>
            IsOk(ret) /\ ret.val = <<>> /\ ret.d.pos = 1 /\ ret.d.nexts = 1
        /\ tokens[1] = Option(TRUE) =>
            LET inner == deserialize(target.of, AfterLeading)
            IN  /\ ret.err = inner.err
                /\ ret.d.pos = inner.d.pos
                /\ ret.d.nexts = inner.d.nexts
                /\ ret.val = IF IsOk(inner) THEN <<inner.val>> ELSE <<>>
        /\ (tokens = <<Option(TRUE), IntTok(5)>> /\ target.of.t = "num") =>
            IsOk(ret) /\ ret.val = <<5>>

C10_Witness ==
    /\ call = "decode"
    /\ target.t = "option"
    /\ target.of.t = "num"
    /\ tokens = <<Option(TRUE), IntTok(5)>>
    /\ ret.val = <<5>>

\* C11: expect_enum_start succeeds exactly when the token is an EnumStart
\* whose type name is the requested name and whose variant name occurs in the
\* variant list; the result is then an index of the list at which the variant
\* name stands; every other token gives a syntax error on that token; and no
\* token is pulled beyond the leading one.
C11_ExpectEnumStart ==
    call = "expect_enum_start" =>
        LET t == tokens[1]
            vs == target.variants
        IN  /\ ret.d.pos = 1
            /\ ret.d.nexts = 1
            /\ IsOk(ret) <=> /\ t.kind = "EnumStart"
                             /\ t.s = target.name
                             /\ \E i \in DOMAIN vs : vs[i] = t.v
            /\ IsOk(ret) => /\ ret.val \in 0..(Len(vs) - 1)
                            /\ vs[ret.val + 1] = t.v
                            /\ ret.d.errs = <<>>
            /\ ~IsOk(ret) => /\ ret.err = "SyntaxError"
                             /\ ret.d.errs = <<[kind |-> "SyntaxError", tok |-> t, at |-> 1]>>

\* Frog is at position 1 of Animal's variants.
C11_Witness ==
    /\ call = "expect_enum_start"
    /\ target.name = "Animal"
    /\ tokens = <<EnumStart("Animal", "Frog", 2), IntTok(1)>>
    /\ IsOk(ret)
    /\ ret.val = 1


\* The one token a number or a borrowed string is decoded from.
Fits(token, T) ==
    CASE T.t = "num" -> token.kind \in NumKinds
      [] T.t = "str" -> token.kind = "Str"
      [] OTHER -> FALSE

\* The value decoded from a token that fits.
Payload(token, T) == IF T.t = "num" THEN token.n ELSE token.s

ScalarElts(T) == \A i \in DOMAIN T.elts : T.elts[i].t \in {"num", "str"}

\* One syntax error, raised on the token at position k right after it was
\* pulled.
SyntaxErrorAt(k) ==
    /\ ret.err = "SyntaxError"
    /\ ret.d.pos = k
    /\ ret.d.nexts = k
    /\ ret.d.errs = <<[kind |-> "SyntaxError", tok |-> ret.d.tokens[k], at |-> k]>>

\* C12: a tuple of N one-token elements decodes exactly from TupleStart, N
\* tokens that fit the element types in order, and End, whatever count the
\* TupleStart carries; the value holds the N payloads in order; a region
\* with End before the N-th element, or without End after it, is a syntax
\* error on the token found there.
C12_TupleArity ==
    (/\ call = "decode"
     /\ target.t = "tuple"
     /\ ScalarElts(target)
     /\ Len(tokens) >= 1) =>
        LET N == Len(target.elts)
            FitTo(j) == \A i \in 1..j : Len(tokens) > i /\ Fits(tokens[i + 1], target.elts[i])
        IN  IF tokens[1].kind # "TupleStart" THEN SyntaxErrorAt(1)
            ELSE /\ IsOk(ret) <=> FitTo(N) /\ Len(tokens) >= N + 2 /\ tokens[N + 2] = End
                 /\ IsOk(ret) =>
                        /\ ret.d.pos = N + 2
                        /\ ret.d.nexts = N + 2
                        /\ ret.val = [i \in 1..N |-> Payload(tokens[i + 1], target.elts[i])]
                 /\ \A j \in 1..N :
                        (FitTo(j - 1) /\ Len(tokens) > j /\ tokens[j + 1] = End) =>
                            SyntaxErrorAt(j + 1)
                 /\ (FitTo(N) /\ Len(tokens) >= N + 2 /\ tokens[N + 2] # End) =>
                        SyntaxErrorAt(N + 2)

\* The pair of test_tuples; and a TupleStart(3) before two elements.
C12_Witness ==
    /\ call = "decode"
    /\ target = TTuple(<<TInt, TStr>>)
    /\ tokens = <<TupleStart(3), IntTok(2), Str("x"), End, End>>
    /\ IsOk(ret)
    /\ ret.val = <<2, "x">>

\* C13: the unit type decodes from Null, pulling nothing more, and from a
\* TupleStart of any count followed at once by End, pulling that End; a
\* TupleStart followed by another token is a syntax error on that token, and
\* any other leading token is a syntax error on the leading token.
C13_UnitIsExpectNull ==
    (call = "decode" /\ target = TUnit /\ Len(tokens) >= 1) =>
        CASE tokens[1] = Null ->
                IsOk(ret) /\ ret.val = "()" /\ ret.d.pos = 1 /\ ret.d.nexts = 1
          [] tokens[1].kind = "TupleStart" /\ Len(tokens) = 1 ->
                ret.err = "EndOfStream"
          [] tokens[1].kind = "TupleStart" /\ Len(tokens) >= 2 ->
                IF tokens[2] = End
                THEN IsOk(ret) /\ ret.val = "()" /\ ret.d.pos = 2 /\ ret.d.nexts = 2
                ELSE SyntaxErrorAt(2)
          [] OTHER -> SyntaxErrorAt(1)

\* TupleStart(3), End is the unit value, and the token after it is not pulled.
C13_Witness ==
    /\ call = "decode"
    /\ target = TUnit
    /\ tokens = <<TupleStart(3), End, Null>>
    /\ IsOk(ret)
    /\ ret.d.pos = 2


ProperPrefix(s, v) == Len(s) < Len(v) /\ s = SubSeq(v, 1, Len(s))

\* C14: a call ends with the end-of-stream error exactly when it called
\* next() on the exhausted stream, and then every token was pulled and the
\* one error raised is end-of-stream; a stream cut short inside a value
\* (the empty stream, Option(true) alone, a test vector without its last
\* tokens) gives that error; and an error item of the source reached by the
\* call is what the call returns, no error constructor being called.
C14_EndOfStream ==
    call # "new" =>
        LET d == ret.d
            toks == ret.d.tokens
        IN  /\ d.nexts > d.pos <=> ret.err = "EndOfStream"
            /\ ret.err = "EndOfStream" =>
                    /\ d.pos = Len(toks)
                    /\ d.errs = <<[kind |-> "EndOfStream", tok |-> NoToken,
                                   at |-> Len(toks) + 1]>>
                    /\ ret.val = <<>>
            /\ toks = <<>> => ret.err = "EndOfStream"
            /\ (toks = <<Option(TRUE)>> /\ (call \notin {"decode", "redecode"}
                                            \/ target.t = "option")) =>
                    ret.err = "EndOfStream"
            /\ call \in {"IgnoreTokens", "GatherTokens"} =>
                    \A v \in TestVectors : ProperPrefix(toks, v) => ret.err = "EndOfStream"
            /\ call \in {"decode", "redecode"} =>
                    \A v \in TestVectors :
                        (ProperPrefix(toks, v)
                         /\ IsOk(deserialize(target, TokenDeserializer_new(v)))) =>
                            ret.err = "EndOfStream"
            /\ \A k \in 1..d.pos :
                    toks[k].kind = "Err" =>
                        /\ ret.err = toks[k].s
                        /\ d.pos = k
                        /\ d.nexts = k
                        /\ d.errs = <<>>
                        /\ ret.val = <<>>
            /\ ret.err \notin {"Ok", "EndOfStream", "SyntaxError"} =>
                    d.pos >= 1 /\ toks[d.pos] = SourceErr(ret.err)

\* The sequence of test_vecs without its End.
C14_Witness ==
    /\ call = "decode"
    /\ target = TVec(TInt)
    /\ tokens = <<SeqStart(3), IntTok(5), IntTok(6), IntTok(7)>>
    /\ ret.err = "EndOfStream"
    /\ ret.d.nexts = 5


\* The tokens from position o + 1 on put End where a value is expected, at
\* position o + k: End itself; End after Option(true); End after a struct's
\* field name; End after a map's one-token key.
EndAsValue(toks, o, k) ==
    /\ Len(toks) >= o + k
    /\ toks[o + k] = End
    /\ \/ k = 1
       \/ k = 2 /\ toks[o + 1] = Option(TRUE)
       \/ k = 3 /\ toks[o + 1].kind = "StructStart" /\ toks[o + 2].kind \in {"Str", "String"}
       \/ k = 3 /\ toks[o + 1].kind = "MapStart" /\ ScalarToken(toks[o + 2])

\* C15: IgnoreTokens and GatherTokens fail with a syntax error on the End
\* token when End stands where a value is expected: as the leading token,
\* after Option(true), after a struct field's name, after a map key, and
\* the same behind any number of leading Option(true); and when they succeed
\* the tokens they consumed form one structurally complete value, each End
\* in it closing an opener.
C15_EndIsNeverAValue ==
    call \in {"IgnoreTokens", "GatherTokens"} =>
        /\ \A o \in 0..Len(tokens) : \A k \in 1..3 :
                ((\A i \in 1..o : tokens[i] = Option(TRUE)) /\ EndAsValue(tokens, o, k)) =>
                    SyntaxErrorAt(o + k)
        /\ IsOk(ret) => IsValue(SubSeq(tokens, 1, ret.d.pos))

\* A map whose key has no value.
C15_Witness ==
    /\ call = "GatherTokens"
    /\ tokens = <<MapStart(1), IntTok(1), End, End>>
    /\ ret.err = "SyntaxError"
    /\ ret.d.pos = 3


RECURSIVE Concat(_)
\* The concatenation of a sequence of sequences.
Concat(ss) == IF ss = <<>> THEN <<>> ELSE Head(ss) \o Concat(Tail(ss))

RECURSIVE Enc(_, _)
\* The tokens of a value of a number type or of a sequence type, elements in
\* the order the value holds them.
Enc(T, val) ==
    IF T.t = "num" THEN <<IntTok(val)>>
    ELSE <<SeqStart(0)>> \o Concat([i \in DOMAIN val |-> Enc(T.of, val[i])]) \o <<End>>

\* Tokens with the differences expect_seq_start and expect_num do not see
\* removed: the opener kind, the count, the width of a number token.
Norm(v) ==
    [i \in DOMAIN v |->
        IF v[i].kind \in {"SeqStart", "TupleStart"} THEN SeqStart(0)
        ELSE IF v[i].kind \in NumKinds THEN IntTok(v[i].n)
        ELSE v[i]]

\* C16: a call pulls the tokens of the stream from the first on, each once:
\* the number of next() calls is the number of tokens consumed, plus one when
\* the stream ran out; and the sequence (of numbers, or of sequences of
\* numbers) a decode returns holds the elements in the order of their tokens:
\* written back as tokens it is the consumed part of the stream.
C16_StreamOrder ==
    /\ call \in {"decode", "IgnoreTokens", "GatherTokens"} =>
        /\ ret.d.tokens = tokens
        /\ ret.d.pos <= Len(tokens)
        /\ ret.d.nexts = ret.d.pos + (IF ret.err = "EndOfStream" THEN 1 ELSE 0)
    /\ (call = "decode" /\ target \in {TVec(TInt), TVec(TVec(TInt))} /\ IsOk(ret)) =>
            Enc(target, ret.val) = Norm(SubSeq(tokens, 1, ret.d.pos))
    /\ (call = "decode" /\ target = TVec(TInt)
        /\ tokens = <<SeqStart(3), IntTok(5), IntTok(6), IntTok(7), End>>) =>
            IsOk(ret) /\ ret.val = <<5, 6, 7>>

\* The nested sequence of test_vecs.
C16_Witness ==
    /\ call = "decode"
    /\ target = TVec(TVec(TInt))
    /\ Len(tokens) = 14
    /\ IsOk(ret)
    /\ ret.val = <<<<1>>, <<2, 3>>, <<4, 5, 6>>>>


\* The calls the map claim is checked on: the two engines, and the decode of
\* a map from numbers to strings (one token per key, one per value).
MapCase ==
    \/ call \in {"IgnoreTokens", "GatherTokens"}
    \/ call = "decode" /\ target = TMap(TInt, TString)

KeyOk(t) == IF call = "decode" THEN t.kind \in NumKinds ELSE ScalarToken(t)

ValOk(t) == IF call = "decode" THEN t.kind \in {"Str", "String"} ELSE ScalarToken(t)

\* After MapStart come j entries of one key token and one value token.
Pairs(j) == \A i \in 1..j : KeyOk(tokens[2 * i]) /\ ValOk(tokens[2 * i + 1])

\* C17: after MapStart and j whole entries, the next token pulled ends the
\* map if it is End (the call succeeds there; a decode returns the entries
\* read, a later entry replacing an earlier one of the same key); otherwise
\* it is the key: a decode whose key type does not take it fails on it with
\* no further pull, and when the token after a key is End the call fails on
\* that End, no entry being made of a key alone.
C17_MapKeyThenValue ==
    (MapCase /\ Len(tokens) >= 1 /\ tokens[1].kind = "MapStart") =>
        \A j \in 0..Len(tokens) :
            (2 * j + 2 <= Len(tokens) /\ Pairs(j)) =>
                IF tokens[2 * j + 2] = End
                THEN /\ IsOk(ret)
                     /\ ret.d.pos = 2 * j + 2
                     /\ ret.d.nexts = 2 * j + 2
                     /\ call = "decode" =>
                            ret.val = MapFromIter([i \in 1..j |->
                                        <<tokens[2 * i].n, tokens[2 * i + 1].s>>])
                ELSE IF KeyOk(tokens[2 * j + 2])
                THEN (Len(tokens) >= 2 * j + 3 /\ tokens[2 * j + 3] = End) =>
                        SyntaxErrorAt(2 * j + 3)
                ELSE call = "decode" => SyntaxErrorAt(2 * j + 2)

\* The map of test_treemaps.
C17_Witness ==
    /\ call = "decode"
    /\ target = TMap(TInt, TString)
    /\ tokens = <<MapStart(2), IntTok(5), String("a"), IntTok(6), String("b"), End>>
    /\ IsOk(ret)
    /\ ret.val[5] = "a"
    /\ ret.val[6] = "b"


PaintNums == {0, 7}

PaintStrs == {"", "zz"}

\* The stream with the payload of every number token replaced by x, of every
\* boolean token by the parity of x, and of every string and character
\* token by s; the kinds, the openers, End and the Option tokens stay.
Repaint(v, x, s) ==
    [i \in DOMAIN v |->
        CASE v[i].kind \in NumKinds -> [v[i] EXCEPT !.n = x]
          [] v[i].kind = "Bool" -> [v[i] EXCEPT !.n = x % 2]
          [] v[i].kind \in {"Char", "Str", "String"} -> [v[i] EXCEPT !.s = s]
          [] OTHER -> v[i]]

\* C18: IgnoreTokens ends alike on a stream and on the stream with other
\* payloads in its boolean, number, character and string tokens: the same
\* outcome after the same number of tokens and of pulls.
C18_SkipIgnoresPayloads ==
    call = "IgnoreTokens" =>
        \A x \in PaintNums : \A s \in PaintStrs :
            LET r == deserialize(TIgnoreTokens, TokenDeserializer_new(Repaint(tokens, x, s)))
            IN  /\ r.err = ret.err
                /\ r.d.pos = ret.d.pos
                /\ r.d.nexts = ret.d.nexts

\* The Outer vector of the tests, which holds Str, String, Uint and Char.
C18_Witness ==
    /\ call = "IgnoreTokens"
    /\ Len(tokens) = 17
    /\ tokens[1] = StructStart("Outer", 1)
    /\ Repaint(tokens, 7, "zz") # tokens
    /\ IsOk(ret)
    /\ ret.d.pos = 17


\* C19: every syntax error is raised with the token that did not match, the
\* last token pulled; in particular IgnoreTokens and GatherTokens, meeting
\* in a struct's field-name position a token that is neither a string nor
\* End, raise the syntax error with that token.
C19_SyntaxErrorCarriesOffendingToken ==
    /\ (call # "new" /\ ret.err = "SyntaxError") =>
            ret.d.errs[1].tok = ret.d.tokens[ret.d.pos]
    /\ (/\ call \in {"IgnoreTokens", "GatherTokens"}
        /\ Len(tokens) >= 2
        /\ tokens[1].kind = "StructStart"
        /\ tokens[2].kind \notin {"Str", "String", "End"}) =>
            SyntaxErrorAt(2)


\* C20: no call ends with the missing-field error and none raises it: the
\* outcome is a success, end-of-stream, a syntax error, or the error item of
\* the source that the call reached; a struct region that ends before a
\* requested field gives a syntax error on its End.
C20_NoMissingFieldError ==
    call # "new" =>
        /\ ret.err # "IncompleteValue"
        /\ \A i \in DOMAIN ret.d.errs : ret.d.errs[i].kind # "IncompleteValue"
        /\ \/ ret.err \in {"Ok", "EndOfStream", "SyntaxError"}
           \/ ret.d.pos >= 1 /\ ret.d.tokens[ret.d.pos] = SourceErr(ret.err)
        /\ (/\ call = "decode"
            /\ target.t = "struct"
            /\ IntFields(target)
            /\ Len(tokens) >= 1
            /\ tokens[1].kind = "StructStart"
            /\ tokens[1].s = target.name) =>
                \A j \in DOMAIN target.fields :
                    (/\ Len(tokens) >= 2 * j
                     /\ \A i \in 1..(j - 1) :
                            /\ NameIs(tokens[2 * i], target.fields[i].name)
                            /\ tokens[2 * i + 1].kind \in NumKinds
                     /\ tokens[2 * j] = End) =>
                        SyntaxErrorAt(2 * j)

\* A struct P with field x only, decoded as x then y.
C20_Witness ==
    /\ call = "decode"
    /\ target = TPxy
    /\ tokens = <<StructStart("P", 1), Str("x"), IntTok(1), End>>
    /\ ret.err = "SyntaxError"
    /\ ret.d.pos = 4


\* C21: a struct decode of N number fields succeeds exactly on StructStart
\* with the requested name, then for each field in the requested order a Str
\* or String equal to its name and a number token, then End; the value holds
\* the N numbers in that order.  A leading token that is no StructStart or
\* carries another name is a syntax error on it; in a name position, End
\* (a field is missing) or a token that is no string is a syntax error on
\* that token; a token other than End after the last field (an extra field)
\* is a syntax error on that token.
C21_StructExactFields ==
    (call = "decode" /\ target.t = "struct" /\ IntFields(target) /\ Len(tokens) >= 1) =>
        LET N == Len(target.fields)
            FieldsTo(j) ==
                \A i \in 1..j :
                    /\ Len(tokens) >= 2 * i + 1
                    /\ NameIs(tokens[2 * i], target.fields[i].name)
                    /\ tokens[2 * i + 1].kind \in NumKinds
        IN  IF ~(tokens[1].kind = "StructStart" /\ tokens[1].s = target.name)
            THEN SyntaxErrorAt(1)
            ELSE /\ IsOk(ret) <=>
                        FieldsTo(N) /\ Len(tokens) >= 2 * N + 2 /\ tokens[2 * N + 2] = End
                 /\ IsOk(ret) =>
                        /\ ret.d.pos = 2 * N + 2
                        /\ ret.val = [i \in 1..N |-> tokens[2 * i + 1].n]
                 /\ \A j \in 1..N :
                        (/\ FieldsTo(j - 1)
                         /\ Len(tokens) >= 2 * j
                         /\ tokens[2 * j].kind \notin {"Str", "String"}) =>
                            SyntaxErrorAt(2 * j)
                 /\ (FieldsTo(N) /\ Len(tokens) >= 2 * N + 2 /\ tokens[2 * N + 2] # End) =>
                        SyntaxErrorAt(2 * N + 2)

\* A struct P holding x and y, decoded as a struct with the field x only.
C21_Witness ==
    /\ call = "decode"
    /\ target = TPx
    /\ tokens = <<StructStart("P", 2), Str("x"), IntTok(1), Str("y"), IntTok(2), End>>
    /\ ret.err = "SyntaxError"
    /\ ret.d.pos = 4
    /\ ret.d.errs[1].tok = Str("y")


\* C22: every call on a finite stream ends, with a success or an error,
\* after at most one next() call more than the stream holds tokens; from a
\* new deserializer every call can be made and returns; and a container
\* that is not closed (a tuple, sequence, enum or map opener in a stream
\* holding neither End nor a struct) ends in the end-of-stream error.
C22_CallsTerminate ==
    /\ call = "new" =>
        \A T \in {TIgnoreTokens, TGatherTokens} \cup {Types[i] : i \in DOMAIN Types} :
            deserialize(T, ret.d).d.nexts \in 1..(Len(tokens) + 1)
    /\ call # "new" =>
        /\ ret.d.nexts <= Len(ret.d.tokens) + 1
        /\ ret.d.pos <= Len(ret.d.tokens)
        /\ ret.err \in {"Ok", "EndOfStream", "SyntaxError"}
    /\ (/\ call \in {"IgnoreTokens", "GatherTokens"}
        /\ Len(tokens) >= 1
        /\ tokens[1].kind \in {"TupleStart", "SeqStart", "EnumStart", "MapStart"}
        /\ \A i \in DOMAIN tokens : tokens[i].kind \notin {"End", "StructStart"}) =>
            /\ ret.err = "EndOfStream"
            /\ ret.d.nexts = Len(tokens) + 1

\* A sequence in a sequence, neither closed.
C22_Witness ==
    /\ call = "IgnoreTokens"
    /\ tokens = <<SeqStart(1), SeqStart(1), IntTok(1)>>
    /\ ret.err = "EndOfStream"
    /\ ret.d.nexts = 4


\* C23: the decode of a number or a string pulls exactly one token, whether
\* it succeeds or fails; the decode of a sequence of numbers from an opener,
\* k number tokens and End succeeds after k + 2 pulls in all (the opener, the
\* k elements, End) and holds the k numbers; and when the token pulled for an
\* element is no number and not End, the decode fails on that token without
\* another pull.
C23_OnePullPerStep ==
    (call = "decode" /\ Len(tokens) >= 1) =>
        /\ target.t \in {"num", "string"} => ret.d.nexts = 1 /\ ret.d.pos = 1
        /\ (target = TVec(TInt) /\ tokens[1].kind \in {"SeqStart", "TupleStart"}) =>
            \A k \in 0..(Len(tokens) - 2) :
                (\A i \in 1..k : tokens[i + 1].kind \in NumKinds) =>
                    IF tokens[k + 2] = End
                    THEN /\ IsOk(ret)
                         /\ ret.d.nexts = k + 2
                         /\ ret.d.pos = k + 2
                         /\ ret.val = [i \in 1..k |-> tokens[i + 1].n]
                    ELSE tokens[k + 2].kind \notin NumKinds => SyntaxErrorAt(k + 2)

\* The three-element sequence of test_vecs: four pulls after the opener.
C23_Witness ==
    /\ call = "decode"
    /\ target = TVec(TInt)
    /\ tokens = <<SeqStart(3), IntTok(5), IntTok(6), IntTok(7), End>>
    /\ IsOk(ret)
    /\ ret.d.nexts = 5


\* The nesting depth after the i-th token of b: openers less Ends so far.
Depth(b, i) ==
    Cardinality({j \in 1..i : b[j].kind \in Openers})
        - Cardinality({j \in 1..i : b[j] = End})

\* Skip over the buffer consumes all of it, and Gather over it gives it back.
Refeeds(b) ==
    /\ IsOk(deserialize(TIgnoreTokens, TokenDeserializer_new(b)))
    /\ deserialize(TIgnoreTokens, TokenDeserializer_new(b)).d.pos = Len(b)
    /\ deserialize(TIgnoreTokens, TokenDeserializer_new(b \o <<IntTok(1)>>)).d.pos = Len(b)
    /\ deserialize(TGatherTokens, TokenDeserializer_new(b)).val = b

\* C24 as stated: in the buffer of a successful GatherTokens the depth is
\* never negative and is zero after the last token and after no other; Skip
\* over the buffer consumes exactly the buffer and Gather reproduces it.
C24_DepthZeroOnlyAtLastToken ==
    (call = "GatherTokens" /\ IsOk(ret)) =>
        /\ \A i \in 1..Len(ret.val) :
                /\ Depth(ret.val, i) >= 0
                /\ Depth(ret.val, i) = 0 <=> i = Len(ret.val)
        /\ Refeeds(ret.val)

\* C24, amended: the buffer is one structurally complete value; the depth is
\* never negative, is zero after the last token, and before that is zero
\* only after the Option(true) tokens that lead the value; Skip over the
\* buffer consumes exactly the buffer and Gather reproduces it.
C24_BufferIsOneValue ==
    (call = "GatherTokens" /\ IsOk(ret)) =>
        /\ Len(ret.val) >= 1
        /\ IsValue(ret.val)
        /\ \A i \in 1..Len(ret.val) :
                /\ Depth(ret.val, i) >= 0
                /\ i = Len(ret.val) => Depth(ret.val, i) = 0
                /\ (Depth(ret.val, i) = 0 /\ i < Len(ret.val)) =>
                        \A j \in 1..i : ret.val[j] = Option(TRUE)
        /\ Refeeds(ret.val)

\* A present optional holding a sequence, with a token after it.
C24_Witness ==
    /\ call = "GatherTokens"
    /\ tokens = <<Option(TRUE), SeqStart(1), IntTok(1), End, End>>
    /\ IsOk(ret)
    /\ ret.val = SubSeq(tokens, 1, 4)



\* The first token is taken when it is of one of the kinds, and its count
\* is returned; any other token is a syntax error raised on it.
StartAccepts(kinds) ==
    IF tokens[1].kind \in kinds
    THEN IsOk(ret) /\ ret.val = tokens[1].n /\ ret.d.pos = 1 /\ ret.d.errs = <<>>
    ELSE SyntaxErrorAt(1)

\* The vector with its first token's kind replaced.
Reopened(kind) == [tokens EXCEPT ![1] = Tok(kind, tokens[1].n, "", "")]

\* The decode of the target over a vector gives what the last call gave.
SameDecode(toks) ==
    /\ deserialize(target, TokenDeserializer_new(toks)).err = ret.err
    /\ deserialize(target, TokenDeserializer_new(toks)).d.pos = ret.d.pos
    /\ IsOk(ret) => deserialize(target, TokenDeserializer_new(toks)).val = ret.val

\* C25: expect_seq_start takes TupleStart and SeqStart and returns the
\* count either carries, so a Vec or set decode gives the same result
\* whichever of the two opens the region; expect_tuple_start takes
\* TupleStart alone and expect_map_start MapStart alone; any other first
\* token is a syntax error on that token, in the operation and in the
\* decode that starts with it.
C25_StartOperations ==
    /\ call = "expect_seq_start" => StartAccepts({"TupleStart", "SeqStart"})
    /\ call = "expect_tuple_start" => StartAccepts({"TupleStart"})
    /\ call = "expect_map_start" => StartAccepts({"MapStart"})
    /\ (call = "decode" /\ target.t \in {"vec", "set"}) =>
           IF tokens[1].kind \in {"TupleStart", "SeqStart"}
           THEN /\ ~SyntaxErrorAt(1)
                /\ SameDecode(Reopened("TupleStart"))
                /\ SameDecode(Reopened("SeqStart"))
           ELSE SyntaxErrorAt(1)
    /\ (call = "decode" /\ target.t = "tuple" /\ tokens[1].kind # "TupleStart") =>
           SyntaxErrorAt(1)
    /\ (call = "decode" /\ target.t = "map" /\ tokens[1].kind # "MapStart") =>
           SyntaxErrorAt(1)

\* A Vec decoded from a region that a TupleStart opens.
C25_Witness ==
    /\ call = "decode"
    /\ target = TVec(TInt)
    /\ tokens = <<TupleStart(2), IntTok(1), IntTok(2), End>>
    /\ IsOk(ret)
    /\ ret.val = <<1, 2>>
    /\ ret.d.pos = 4


\* The first token is taken when it is of one of the kinds, and val is
\* returned; any other token is a syntax error raised on it, with no value.
ScalarAccepts(kinds, val) ==
    IF tokens[1].kind \in kinds
    THEN IsOk(ret) /\ ret.val = val /\ ret.d.pos = 1 /\ ret.d.errs = <<>>
    ELSE SyntaxErrorAt(1) /\ ret.val = <<>>

\* C26: expect_bool takes only Bool, expect_char only Char, expect_str only
\* Str (a String token is a syntax error), expect_string both Str and
\* String with the same text for both; each returns the payload unchanged,
\* and a token of any other kind is a syntax error on it, never a coerced
\* or default value.  The decodes of bool, char, &str and String do the
\* same.
C26_ScalarOperations ==
    /\ (call = "expect_bool" \/ (call = "decode" /\ target = TBool)) =>
           ScalarAccepts({"Bool"}, tokens[1].n = 1)
    /\ (call = "expect_char" \/ (call = "decode" /\ target = TChar)) =>
           ScalarAccepts({"Char"}, tokens[1].s)
    /\ (call = "expect_str" \/ (call = "decode" /\ target = TStr)) =>
           ScalarAccepts({"Str"}, tokens[1].s)
    /\ (call = "expect_string" \/ (call = "decode" /\ target = TString)) =>
           ScalarAccepts({"Str", "String"}, tokens[1].s)

\* expect_str refuses the owned String token.
C26_Witness ==
    /\ call = "expect_str"
    /\ tokens = <<String("a"), End>>
    /\ ret.err = "SyntaxError"
    /\ ret.d.errs = <<[kind |-> "SyntaxError", tok |-> String("a"), at |-> 1]>>


\* C28: an operation that is handed the pulled token (expect_bool,
\* expect_num, expect_from_primitive, expect_char, expect_str,
\* expect_string, expect_tuple_start, expect_struct_start,
\* expect_enum_start, expect_seq_start, expect_map_start) pulls nothing,
\* whether it succeeds or fails: after it the source has been asked once,
\* for the token handed over, and stands right after that token.
\* expect_tuple_end, expect_struct_end and expect_enum_end ask the source
\* exactly once more, whether they find End, another token, or nothing.
C28_PullCounts ==
    /\ call \in {q.op : q \in TokenOps} =>
           /\ ret.d.nexts = 1
           /\ ret.d.pos = 1
           /\ ret.d.tokens = tokens
           /\ Len(ret.d.errs) = IF IsOk(ret) THEN 0 ELSE 1
    /\ call \in EndOps =>
           /\ ret.d.nexts = 2
           /\ ret.d.pos = IF Len(tokens) >= 2 THEN 2 ELSE 1
           /\ ret.d.tokens = tokens
           /\ IsOk(ret) <=> (Len(tokens) >= 2 /\ tokens[2] = End)

\* expect_struct_end fails on a token that is not End, having pulled it and
\* nothing after it.
C28_Witness ==
    /\ call = "expect_struct_end"
    /\ tokens = <<StructStart("P", 1), IntTok(1), End>>
    /\ ret.err = "SyntaxError"
    /\ ret.d.nexts = 2
    /\ ret.d.pos = 2


\* C27: whenever the decode of a type succeeds on a stream, IgnoreTokens on
\* the same stream succeeds too and consumes the same number of tokens,
\* with the same number of pulls and no error raised.
C27_SkipFollowsDecode ==
    (call = "decode" /\ IsOk(ret)) =>
        /\ IsOk(deserialize(TIgnoreTokens, Fresh))
        /\ deserialize(TIgnoreTokens, Fresh).d.pos = ret.d.pos
        /\ deserialize(TIgnoreTokens, Fresh).d.nexts = ret.d.nexts
        /\ deserialize(TIgnoreTokens, Fresh).d.errs = <<>>

\* A struct decoded from a region of five tokens or more that holds an
\* Option(true), with a token left after it in the stream.
C27_Witness ==
    /\ call = "decode"
    /\ IsOk(ret)
    /\ target.t = "struct"
    /\ \E i \in DOMAIN tokens : tokens[i] = Option(TRUE)
    /\ ret.d.pos >= 5
    /\ ret.d.pos < Len(tokens)

====
